---- MODULE Spec2Model ----
(***************************************************************************)
(* A model of sherlock's group vault: the Group/Account data model, the    *)
(* StateOption mutations, the query resolver and the Sherlock orchestrator *)
(* (internal/sherlock.go, internal/group.go).                              *)
(*                                                                         *)
(* Strings that the code takes apart (queries, group ids, account names)   *)
(* are sequences of one-character strings; strings the code only compares  *)
(* (tags, secrets, keys, errors) are TLA+ strings.                         *)
(***************************************************************************)
EXTENDS Integers, Sequences, FiniteSets, TLC

VARIABLES
    store,    \* the file system: group id -> encrypted vault blob
    call,     \* per caller: the operation in progress or just returned, with
              \* its arguments, its result, the store it started on (pre) and
              \* the number of store writes it made (writes)
    loopvar,  \* how the build scopes a range loop's variables (Group.delete)
    grp,      \* an in-memory Group, for the Group-level specification
    ret       \* the last StateOption applied to grp and what it returned

vars == <<store, call, loopvar, grp, ret>>

(***************************************************************************)
(* Bounds                                                                  *)
(***************************************************************************)
\* accounts held by the whole store (Spec)
MaxAccounts == 2
\* accounts held by the in-memory group (SpecGroup)
MaxLen == 3

(***************************************************************************)
(* Values                                                                  *)
(***************************************************************************)
querySplitPoint == "@"

nil == "nil"
ErrNotSetup == "ErrNotSetup"
ErrNoSuchGroup == "ErrNoSuchGroup"
ErrWrongKey == "ErrWrongKey"
ErrInvalidQuery == "ErrInvalidQuery"
ErrAccountExists == "ErrAccountExists"
ErrNoSuchAccount == "ErrNoSuchAccount"
\* errors of code outside internal/: the file system's and the strength check's
ErrGroupExists == "ErrGroupExists"
ErrInsecure == "ErrInsecure"

DefaultGID == <<"d", "e", "f", "a", "u", "l", "t">>
GidG == <<"g">>
NameA == <<"a">>
NameB == <<"b">>

GroupNames == {DefaultGID, GidG}
Names == {NameA, NameB}
Tags == {"t", "u"}
Secrets == {"weak", "S3cret!x"}
Keys == {"K1", "weak"}
Times == {1}

\* the password strength policy (Account.secure / Group.secure)
Weak(password) == password = "weak"

Account(name, tag, secret, created) ==
    [Name |-> name, Tag |-> tag, Secret |-> secret, CreatedOn |-> created]

AccountInputs == {Account(n, t, "S3cret!x", c) : n \in Names, t \in Tags, c \in Times}

NewGroup(name) == [GID |-> name, Accounts |-> <<>>]

(***************************************************************************)
(* Query resolver                                                          *)
(***************************************************************************)
\* strings.Split(s, sep) for a one-character separator
RECURSIVE Split(_, _)
Split(s, sep) ==
    IF \E i \in 1..Len(s) : s[i] = sep
    THEN LET i == CHOOSE k \in 1..Len(s) :
                      s[k] = sep /\ \A j \in 1..(k - 1) : s[j] # sep
         IN  <<SubSeq(s, 1, i - 1)>> \o Split(SubSeq(s, i + 1, Len(s)), sep)
    ELSE <<s>>

\* SplitQuery, were it to accept any query with a separator
SplitQueryAtLeastTwo(query) ==
    LET set == Split(query, querySplitPoint)
    IN  IF Len(set) < 2
        THEN [gid |-> <<>>, name |-> <<>>, err |-> ErrInvalidQuery]
        ELSE [gid |-> set[1], name |-> set[2], err |-> nil]

SplitQuery(query) ==
    LET set == Split(query, querySplitPoint)
    IN  IF Len(set) # 2
        THEN [gid |-> <<>>, name |-> <<>>, err |-> ErrInvalidQuery]
        ELSE [gid |-> set[1], name |-> set[2], err |-> nil]

Query(gid, name) == gid \o <<querySplitPoint>> \o name

QueryInputs ==
    {Query(g, n) : g \in GroupNames \cup {<<>>}, n \in Names \cup {<<>>}}
    \cup {GidG, Query(GidG, Query(NameA, NameB)), <<"@", "@">>}

(***************************************************************************)
(* Group                                                                   *)
(***************************************************************************)
\* exists, were it to compare the names alone
existsByNameAlone(g, account) ==
    \E i \in 1..Len(g.Accounts) : account.Name = g.Accounts[i].Name

exists(g, account) ==
    \E i \in 1..Len(g.Accounts) :
        account.Name = g.Accounts[i].Name /\ account.Tag = g.Accounts[i].Tag

\* the call g.exists(name) of OptAccName: some account carries the name
existsName(g, name) ==
    \E i \in 1..Len(g.Accounts) : g.Accounts[i].Name = name

append(g, account) ==
    IF exists(g, account)
    THEN [err |-> ErrAccountExists, group |-> g]
    ELSE [err |-> nil, group |-> [g EXCEPT !.Accounts = Append(@, account)]]

\* lookup, were its loop to go on after the first match
lookupLastMatch(g, accountName) ==
    LET hits == {i \in 1..Len(g.Accounts) : g.Accounts[i].Name = accountName}
    IN  IF hits = {}
        THEN [err |-> ErrNoSuchAccount, idx |-> 0]
        ELSE [err |-> nil, idx |-> CHOOSE i \in hits : \A j \in hits : j <= i]

\* the account returned is a pointer into g.Accounts: its index
lookup(g, accountName) ==
    LET hits == {i \in 1..Len(g.Accounts) : g.Accounts[i].Name = accountName}
    IN  IF hits = {}
        THEN [err |-> ErrNoSuchAccount, idx |-> 0]
        ELSE [err |-> nil, idx |-> CHOOSE i \in hits : \A j \in hits : i <= j]

RemoveAt(s, i) == SubSeq(s, 1, i - 1) \o SubSeq(s, i + 1, Len(s))

\* offset = &i: with one variable per loop the pointer reads the index of the
\* last iteration, with one variable per iteration the index of the last match
deleteOffset(g, account) ==
    LET hits == {i \in 1..Len(g.Accounts) : g.Accounts[i].Name = account}
    IN  IF hits = {} THEN 0
        ELSE IF loopvar = "per-loop" THEN Len(g.Accounts)
        ELSE CHOOSE i \in hits : \A j \in hits : j <= i

delete(g, account) ==
    LET offset == deleteOffset(g, account)
    IN  IF offset = 0
        THEN [err |-> ErrNoSuchAccount, group |-> g]
        ELSE [err |-> nil,
              group |-> [g EXCEPT !.Accounts = RemoveAt(@, offset)]]

\* json.Marshal(g): the group id, then each account's fields in order
serizalize(g) ==
    <<g.GID, [i \in 1..Len(g.Accounts) |->
                <<g.Accounts[i].Name, g.Accounts[i].Tag,
                  g.Accounts[i].Secret, g.Accounts[i].CreatedOn>>]>>

\* json.Unmarshal into a Group
deserialize(data) ==
    [GID |-> data[1],
     Accounts |-> [i \in 1..Len(data[2]) |->
                     Account(data[2][i][1], data[2][i][2],
                             data[2][i][3], data[2][i][4])]]

(***************************************************************************)
(* Account.update and its field mutations (internal/account.go)            *)
(***************************************************************************)
updateFieldPassword(a, password, insecure) ==
    IF ~insecure /\ Weak(password)
    THEN [err |-> ErrInsecure, account |-> a]
    ELSE [err |-> nil, account |-> [a EXCEPT !.Secret = password]]

updateFieldName(a, name) == [err |-> nil, account |-> [a EXCEPT !.Name = name]]

updateFieldTag(a, tag) == [err |-> nil, account |-> [a EXCEPT !.Tag = tag]]

\* the account behind the pointer is changed in place
update(g, idx, u) ==
    IF u.err # nil
    THEN [err |-> u.err, group |-> g]
    ELSE [err |-> nil, group |-> [g EXCEPT !.Accounts[idx] = u.account]]

(***************************************************************************)
(* StateOption: func(g *Group, acc string) error                           *)
(***************************************************************************)
OptAddAccount(account, g, acc) == append(g, account)

OptAccPassword(password, insecure, g, acc) ==
    LET l == lookup(g, acc)
    IN  IF l.err # nil
        THEN [err |-> l.err, group |-> g]
        ELSE update(g, l.idx,
                    updateFieldPassword(g.Accounts[l.idx], password, insecure))

\* OptAccName, were it to rename every account of the target name
OptAccNameEveryMatch(name, g, acc) ==
    IF existsName(g, name)
    THEN [err |-> ErrAccountExists, group |-> g]
    ELSE LET l == lookup(g, acc)
         IN  IF l.err # nil
             THEN [err |-> l.err, group |-> g]
             ELSE [err |-> nil,
                   group |-> [g EXCEPT !.Accounts =
                       [i \in 1..Len(g.Accounts) |->
                           IF g.Accounts[i].Name = acc
                           THEN [g.Accounts[i] EXCEPT !.Name = name]
                           ELSE g.Accounts[i]]]]

OptAccName(name, g, acc) ==
    IF existsName(g, name)
    THEN [err |-> ErrAccountExists, group |-> g]
    ELSE LET l == lookup(g, acc)
         IN  IF l.err # nil
             THEN [err |-> l.err, group |-> g]
             ELSE update(g, l.idx, updateFieldName(g.Accounts[l.idx], name))

\* OptsAccTag, were it to refuse a tag that another account of the same name has
OptsAccTagUnique(tag, g, acc) ==
    LET l == lookup(g, acc)
    IN  IF l.err # nil
        THEN [err |-> l.err, group |-> g]
        ELSE IF \E i \in 1..Len(g.Accounts) :
                    /\ i # l.idx
                    /\ g.Accounts[i].Name = acc
                    /\ g.Accounts[i].Tag = tag
             THEN [err |-> ErrAccountExists, group |-> g]
             ELSE update(g, l.idx, updateFieldTag(g.Accounts[l.idx], tag))

OptsAccTag(tag, g, acc) ==
    LET l == lookup(g, acc)
    IN  IF l.err # nil
        THEN [err |-> l.err, group |-> g]
        ELSE update(g, l.idx, updateFieldTag(g.Accounts[l.idx], tag))

OptAccDelete(g, acc) == delete(g, acc)

\* a StateOption as a value: which constructor built it, and its arguments
NoOpt ==
    [kind |-> "none", account |-> <<>>, name |-> <<>>, text |-> "",
     insecure |-> FALSE]

OptInputs ==
    {[NoOpt EXCEPT !.kind = "AddAccount", !.account = <<a>>] : a \in AccountInputs}
    \cup {[NoOpt EXCEPT !.kind = "SetPassword", !.text = s, !.insecure = i] :
            s \in Secrets, i \in BOOLEAN}
    \cup {[NoOpt EXCEPT !.kind = "SetName", !.name = n] : n \in Names}
    \cup {[NoOpt EXCEPT !.kind = "SetTag", !.text = t] : t \in Tags}
    \cup {[NoOpt EXCEPT !.kind = "DeleteAccount"]}

\* opt(group, name)
ApplyOpt(opt, g, acc) ==
    CASE opt.kind = "AddAccount" -> OptAddAccount(opt.account[1], g, acc)
      [] opt.kind = "SetPassword" -> OptAccPassword(opt.text, opt.insecure, g, acc)
      [] opt.kind = "SetName" -> OptAccName(opt.name, g, acc)
      [] opt.kind = "SetTag" -> OptsAccTag(opt.text, g, acc)
      [] opt.kind = "DeleteAccount" -> OptAccDelete(g, acc)

(***************************************************************************)
(* The vault codec (package security) and the file system (package fs)     *)
(***************************************************************************)
EncryptVault(serialized, key) == [key |-> key, data |-> serialized]

DecryptVault(bytes, key) ==
    IF bytes.key = key
    THEN [err |-> nil, group |-> <<deserialize(bytes.data)>>]
    ELSE [err |-> "cipher: message authentication failed", group |-> <<>>]

InitWithDefault(key, group) == EncryptVault(serizalize(group), key)

\* a non-nil error says the group exists
fsGroupExists(st, name) == IF name \in DOMAIN st THEN ErrGroupExists ELSE nil

fsVaultExists(st, name) == IF name \in DOMAIN st THEN ErrGroupExists ELSE nil

fsReadGroupVault(st, gid) ==
    IF gid \in DOMAIN st
    THEN [err |-> nil, bytes |-> <<st[gid]>>]
    ELSE [err |-> ErrNoSuchGroup, bytes |-> <<>>]

Put(st, gid, data) ==
    [x \in DOMAIN st \cup {gid} |-> IF x = gid THEN data ELSE st[x]]

fsWrite(st, gid, data) == [err |-> nil, store |-> Put(st, gid, data)]

fsCreateGroup(st, name, vault) ==
    IF name \in DOMAIN st
    THEN [err |-> ErrGroupExists, store |-> st]
    ELSE [err |-> nil, store |-> Put(st, name, vault)]

fsInitFs(st, vault) == fsCreateGroup(st, DefaultGID, vault)

fsDelete(st, gid) ==
    IF gid \in DOMAIN st
    THEN [err |-> nil, store |-> [x \in DOMAIN st \ {gid} |-> st[x]]]
    ELSE [err |-> ErrNoSuchGroup, store |-> st]

fsReadRegisteredGroups(st) == DOMAIN st

\* Group.secure(groupKey): the strength check of a group key
secure(groupKey) == IF Weak(groupKey) THEN ErrInsecure ELSE nil

(***************************************************************************)
(* Sherlock                                                                *)
(***************************************************************************)
\* LoadGroup, were it to drop the error of DecryptVault
LoadGroupAnyKey(st, gid, groupKey) ==
    LET r == fsReadGroupVault(st, gid)
    IN  IF r.err # nil
        THEN [err |-> r.err, group |-> <<>>]
        ELSE [err |-> nil, group |-> <<deserialize(r.bytes[1].data)>>]

\* LoadGroup, were it to hand out a new group when the vault cannot be read
LoadGroupCreating(st, gid, groupKey) ==
    LET r == fsReadGroupVault(st, gid)
    IN  IF r.err # nil
        THEN [err |-> nil, group |-> <<NewGroup(gid)>>]
        ELSE LET d == DecryptVault(r.bytes[1], groupKey)
             IN  IF d.err # nil
                 THEN [err |-> ErrWrongKey, group |-> <<>>]
                 ELSE [err |-> nil, group |-> d.group]

LoadGroup(st, gid, groupKey) ==
    LET r == fsReadGroupVault(st, gid)
    IN  IF r.err # nil
        THEN [err |-> r.err, group |-> <<>>]
        ELSE LET d == DecryptVault(r.bytes[1], groupKey)
             IN  IF d.err # nil
                 THEN [err |-> ErrWrongKey, group |-> <<>>]
                 ELSE [err |-> nil, group |-> d.group]

\* WriteGroup, were it to encrypt under an empty key instead of the group key
WriteGroupUnderEmptyKey(st, gid, groupKey, group) ==
    fsWrite(st, gid, EncryptVault(serizalize(group), ""))

\* WriteGroup, were it to write every vault into the default group
WriteGroupToDefault(st, gid, groupKey, group) ==
    fsWrite(st, DefaultGID, EncryptVault(serizalize(group), groupKey))

WriteGroup(st, gid, groupKey, group) ==
    fsWrite(st, gid, EncryptVault(serizalize(group), groupKey))

GetAccount(st, query, groupKey) ==
    LET q == SplitQuery(query)
    IN  IF q.err # nil
        THEN [err |-> q.err, acc |-> <<>>]
        ELSE LET l == LoadGroup(st, q.gid, groupKey)
             IN  IF l.err # nil
                 THEN [err |-> l.err, acc |-> <<>>]
                 ELSE LET f == lookup(l.group[1], q.name)
                      IN  IF f.err # nil
                          THEN [err |-> f.err, acc |-> <<>>]
                          ELSE [err |-> nil,
                                acc |-> <<l.group[1].Accounts[f.idx]>>]

\* CheckGroupKey, were it to ignore the error of DecryptVault
CheckGroupKeyDroppingDecryptError(st, query, groupKey) ==
    LET q == SplitQuery(query)
    IN  IF q.err # nil THEN q.err
        ELSE LET r == fsReadGroupVault(st, q.gid)
             IN  IF r.err # nil THEN r.err ELSE nil

CheckGroupKey(st, query, groupKey) ==
    LET q == SplitQuery(query)
    IN  IF q.err # nil THEN q.err
        ELSE LET r == fsReadGroupVault(st, q.gid)
             IN  IF r.err # nil THEN r.err
                 ELSE IF DecryptVault(r.bytes[1], groupKey).err # nil
                      THEN ErrWrongKey
                      ELSE nil

\* IsSetUp, were it to read a non-nil error as "missing"
IsSetUpInverted(st) ==
    IF fsGroupExists(st, DefaultGID) # nil THEN ErrNotSetup
    ELSE IF fsVaultExists(st, DefaultGID) # nil THEN ErrNotSetup
    ELSE nil

IsSetUp(st) ==
    IF fsGroupExists(st, DefaultGID) = nil THEN ErrNotSetup
    ELSE IF fsVaultExists(st, DefaultGID) = nil THEN ErrNotSetup
    ELSE nil

Setup(st, groupKey) ==
    fsInitFs(st, InitWithDefault(groupKey, NewGroup(DefaultGID)))

\* SetupGroup, were it to write the vault without asking whether the group exists
SetupGroupOverwriting(st, name, groupKey, insecure) ==
    IF ~insecure /\ secure(groupKey) # nil
    THEN [err |-> secure(groupKey), store |-> st]
    ELSE fsWrite(st, name, InitWithDefault(groupKey, NewGroup(name)))

SetupGroup(st, name, groupKey, insecure) ==
    IF fsGroupExists(st, name) # nil
    THEN [err |-> fsGroupExists(st, name), store |-> st]
    ELSE IF ~insecure /\ secure(groupKey) # nil
         THEN [err |-> secure(groupKey), store |-> st]
         ELSE fsCreateGroup(st, name, InitWithDefault(groupKey, NewGroup(name)))

DeleteGroup(st, gid) == fsDelete(st, gid)

(***************************************************************************)
(* State                                                                   *)
(***************************************************************************)
Callers == {1, 2}
\* the callers of the one-at-a-time specification
SeqCallers == {1}

IdleCall ==
    [op |-> "none", phase |-> "Unloaded", query |-> <<>>, key |-> "",
     gid |-> <<>>, name |-> <<>>, flag |-> FALSE, opt |-> NoOpt,
     loaded |-> <<>>, group |-> <<>>, err |-> nil, acc |-> <<>>,
     groups |-> {}, writes |-> 0, pre |-> <<>>]

NoRet ==
    [opt |-> NoOpt, acc |-> <<>>, err |-> nil, before |-> NewGroup(GidG),
     found |-> <<>>]

RECURSIVE SumLen(_, _)
SumLen(st, gids) ==
    IF gids = {} THEN 0
    ELSE LET x == CHOOSE y \in gids : TRUE
         IN  Len(st[x].data[2]) + SumLen(st, gids \ {x})

\* the accounts the store holds, over all groups
TotalAccounts(st) == SumLen(st, DOMAIN st)

Init ==
    /\ store = <<>>
    /\ call = [p \in Callers |-> IdleCall]
    /\ loopvar \in {"per-loop", "per-iteration"}
    /\ grp = NewGroup(GidG)
    /\ ret = NoRet

(***************************************************************************)
(* UpdateState, one step per phase                                         *)
(***************************************************************************)
\* UpdateStateLoad, were it to go on with the zero Group when LoadGroup fails
UpdateStateLoadDroppingError(p) ==
    /\ call[p] = IdleCall
    /\ \E query \in QueryInputs, groupKey \in Keys :
         LET q == SplitQuery(query)
             l == LoadGroup(store, q.gid, groupKey)
             c == [IdleCall EXCEPT !.op = "UpdateState", !.query = query,
                                   !.key = groupKey, !.pre = store]
             g == IF l.err # nil THEN <<NewGroup(<<>>)>> ELSE l.group
         IN  call' = [call EXCEPT ![p] =
                 IF q.err # nil THEN [c EXCEPT !.err = q.err]
                 ELSE [c EXCEPT !.gid = q.gid, !.name = q.name,
                                !.phase = "Loaded", !.loaded = g, !.group = g]]
    /\ UNCHANGED <<store, loopvar, grp, ret>>

\* SplitQuery and LoadGroup.  The StateOption is a closure over its own
\* arguments and is not consulted before it is called, so it is drawn there.
UpdateStateLoad(p) ==
    /\ call[p] = IdleCall
    /\ \E query \in QueryInputs, groupKey \in Keys :
         LET q == SplitQuery(query)
             l == LoadGroup(store, q.gid, groupKey)
             c == [IdleCall EXCEPT !.op = "UpdateState", !.query = query,
                                   !.key = groupKey, !.pre = store]
         IN  call' = [call EXCEPT ![p] =
                 IF q.err # nil THEN [c EXCEPT !.err = q.err]
                 ELSE IF l.err # nil
                      THEN [c EXCEPT !.gid = q.gid, !.name = q.name,
                                     !.err = l.err]
                      ELSE [c EXCEPT !.gid = q.gid, !.name = q.name,
                                     !.phase = "Loaded", !.loaded = l.group,
                                     !.group = l.group]]
    /\ UNCHANGED <<store, loopvar, grp, ret>>

\* UpdateStateMutate, were it to call the StateOption a second time
UpdateStateMutateTwice(p) ==
    /\ call[p].phase = "Loaded"
    /\ \E opt \in OptInputs :
         LET r1 == ApplyOpt(opt, call[p].group[1], call[p].name)
             r2 == ApplyOpt(opt, r1.group, call[p].name)
             r == IF r1.err = nil /\ r2.err = nil THEN r2 ELSE r1
         IN  /\ TotalAccounts(store) - Len(call[p].loaded[1].Accounts)
                    + Len(r.group.Accounts) <= MaxAccounts
             /\ call' = [call EXCEPT ![p] =
                    IF r.err # nil
                    THEN [@ EXCEPT !.phase = "Unloaded", !.opt = opt,
                                   !.err = r.err, !.loaded = <<>>,
                                   !.group = <<>>]
                    ELSE [@ EXCEPT !.phase = "Mutated", !.opt = opt,
                                   !.group = <<r.group>>]]
    /\ UNCHANGED <<store, loopvar, grp, ret>>

\* UpdateStateMutate, were it to drop the error of the StateOption
UpdateStateMutateDroppingError(p) ==
    /\ call[p].phase = "Loaded"
    /\ \E opt \in OptInputs :
         LET r == ApplyOpt(opt, call[p].group[1], call[p].name)
         IN  /\ TotalAccounts(store) - Len(call[p].loaded[1].Accounts)
                    + Len(r.group.Accounts) <= MaxAccounts
             /\ call' = [call EXCEPT ![p] =
                    [@ EXCEPT !.phase = "Mutated", !.opt = opt,
                              !.group = <<r.group>>]]
    /\ UNCHANGED <<store, loopvar, grp, ret>>

\* opt(group, name)
UpdateStateMutate(p) ==
    /\ call[p].phase = "Loaded"
    /\ \E opt \in OptInputs :
         LET r == ApplyOpt(opt, call[p].group[1], call[p].name)
         IN  /\ TotalAccounts(store) - Len(call[p].loaded[1].Accounts)
                    + Len(r.group.Accounts) <= MaxAccounts
             /\ call' = [call EXCEPT ![p] =
                    IF r.err # nil
                    THEN [@ EXCEPT !.phase = "Unloaded", !.opt = opt,
                                   !.err = r.err, !.loaded = <<>>,
                                   !.group = <<>>]
                    ELSE [@ EXCEPT !.phase = "Mutated", !.opt = opt,
                                   !.group = <<r.group>>]]
    /\ UNCHANGED <<store, loopvar, grp, ret>>

\* UpdateStatePersist, were it to read the group again when it writes and
\* apply the StateOption to what the store holds then
UpdateStatePersistMerging(p) ==
    /\ call[p].phase = "Mutated"
    /\ LET l == LoadGroup(store, call[p].gid, call[p].key)
           g == IF l.err # nil THEN call[p].group[1]
                ELSE LET r == ApplyOpt(call[p].opt, l.group[1], call[p].name)
                     IN  IF r.err # nil THEN l.group[1] ELSE r.group
           w == WriteGroup(store, call[p].gid, call[p].key, g)
       IN  /\ store' = w.store
           /\ call' = [call EXCEPT ![p] =
                  [@ EXCEPT !.phase = "Persisted", !.err = w.err,
                            !.writes = @ + 1]]
    /\ UNCHANGED <<loopvar, grp, ret>>

\* WriteGroup
UpdateStatePersist(p) ==
    /\ call[p].phase = "Mutated"
    /\ LET w == WriteGroup(store, call[p].gid, call[p].key, call[p].group[1])
       IN  /\ store' = w.store
           /\ call' = [call EXCEPT ![p] =
                  [@ EXCEPT !.phase = "Persisted", !.err = w.err,
                            !.writes = @ + 1]]
    /\ UNCHANGED <<loopvar, grp, ret>>

\* Return, were the Sherlock to keep the group of the call that has returned
ReturnKeepingGroup(p) ==
    /\ call[p].op # "none"
    /\ call[p].phase \in {"Unloaded", "Persisted"}
    /\ call' = [call EXCEPT ![p] =
           [IdleCall EXCEPT !.loaded = call[p].loaded, !.group = call[p].group]]
    /\ UNCHANGED <<store, loopvar, grp, ret>>

\* the call has returned: nothing of it is kept, and the next call starts
\* from Unloaded with no group in memory
Return(p) ==
    /\ call[p].op # "none"
    /\ call[p].phase \in {"Unloaded", "Persisted"}
    /\ call' = [call EXCEPT ![p] = IdleCall]
    /\ UNCHANGED <<store, loopvar, grp, ret>>

(***************************************************************************)
(* The other operations, each one step                                     *)
(***************************************************************************)
CallGetAccount(p) ==
    /\ call[p] = IdleCall
    /\ \E query \in QueryInputs, groupKey \in Keys :
         LET r == GetAccount(store, query, groupKey)
         IN  call' = [call EXCEPT ![p] =
                 [IdleCall EXCEPT !.op = "GetAccount", !.query = query,
                                  !.key = groupKey, !.err = r.err,
                                  !.acc = r.acc, !.pre = store]]
    /\ UNCHANGED <<store, loopvar, grp, ret>>

CallCheckGroupKey(p) ==
    /\ call[p] = IdleCall
    /\ \E query \in QueryInputs, groupKey \in Keys :
         call' = [call EXCEPT ![p] =
             [IdleCall EXCEPT !.op = "CheckGroupKey", !.query = query,
                              !.key = groupKey, !.pre = store,
                              !.err = CheckGroupKey(store, query, groupKey)]]
    /\ UNCHANGED <<store, loopvar, grp, ret>>

CallIsSetUp(p) ==
    /\ call[p] = IdleCall
    /\ call' = [call EXCEPT ![p] =
           [IdleCall EXCEPT !.op = "IsSetUp", !.pre = store,
                            !.err = IsSetUp(store)]]
    /\ UNCHANGED <<store, loopvar, grp, ret>>

CallSetup(p) ==
    /\ call[p] = IdleCall
    /\ \E groupKey \in Keys :
         LET r == Setup(store, groupKey)
         IN  /\ store' = r.store
             /\ call' = [call EXCEPT ![p] =
                    [IdleCall EXCEPT !.op = "Setup", !.key = groupKey,
                                     !.pre = store, !.err = r.err]]
    /\ UNCHANGED <<loopvar, grp, ret>>

CallSetupGroup(p) ==
    /\ call[p] = IdleCall
    /\ \E name \in GroupNames, groupKey \in Keys, insecure \in BOOLEAN :
         LET r == SetupGroup(store, name, groupKey, insecure)
         IN  /\ store' = r.store
             /\ call' = [call EXCEPT ![p] =
                    [IdleCall EXCEPT !.op = "SetupGroup", !.gid = name,
                                     !.key = groupKey, !.flag = insecure,
                                     !.pre = store, !.err = r.err]]
    /\ UNCHANGED <<loopvar, grp, ret>>

CallDeleteGroup(p) ==
    /\ call[p] = IdleCall
    /\ \E gid \in GroupNames :
         LET r == DeleteGroup(store, gid)
         IN  /\ store' = r.store
             /\ call' = [call EXCEPT ![p] =
                    [IdleCall EXCEPT !.op = "DeleteGroup", !.gid = gid,
                                     !.pre = store, !.err = r.err]]
    /\ UNCHANGED <<loopvar, grp, ret>>

CallReadRegisteredGroups(p) ==
    /\ call[p] = IdleCall
    /\ call' = [call EXCEPT ![p] =
           [IdleCall EXCEPT !.op = "ReadRegisteredGroups", !.pre = store,
                            !.groups = fsReadRegisteredGroups(store)]]
    /\ UNCHANGED <<store, loopvar, grp, ret>>

Step(p) ==
    \/ UpdateStateLoad(p)
    \/ UpdateStateMutate(p)
    \/ UpdateStatePersist(p)
    \/ Return(p)
    \/ CallGetAccount(p)
    \/ CallCheckGroupKey(p)
    \/ CallIsSetUp(p)
    \/ CallSetup(p)
    \/ CallSetupGroup(p)
    \/ CallDeleteGroup(p)
    \/ CallReadRegisteredGroups(p)

\* operations run one at a time
Next == \E p \in SeqCallers : Step(p)

Spec == Init /\ [][Next]_vars

(***************************************************************************)
(* Two commands at once: each caller runs one UpdateState, and their       *)
(* phases interleave. Nothing in UpdateState locks the vault.              *)
(***************************************************************************)
\* the stores the callers start on: group g set up under key K1, empty or
\* with one account written
ConcGroups ==
    {NewGroup(GidG),
     [NewGroup(GidG) EXCEPT !.Accounts = <<Account(NameA, "t", "S3cret!x", 1)>>]}

ConcStores ==
    {WriteGroup(SetupGroup(<<>>, GidG, "K1", TRUE).store, GidG, "K1", g).store :
        g \in ConcGroups}

InitConc ==
    /\ store \in ConcStores
    /\ call = [p \in Callers |-> IdleCall]
    /\ loopvar \in {"per-loop", "per-iteration"}
    /\ grp = NewGroup(GidG)
    /\ ret = NoRet

NextConc ==
    \E p \in Callers :
        \/ UpdateStateLoad(p)
        \/ UpdateStateMutate(p)
        \/ UpdateStatePersist(p)

SpecConc == InitConc /\ [][NextConc]_vars

(***************************************************************************)
(* The Group on its own: StateOptions applied to one in-memory group       *)
(***************************************************************************)
GroupApply ==
    /\ \E opt \in OptInputs, acc \in Names :
         LET r == ApplyOpt(opt, grp, acc)
         IN  /\ Len(r.group.Accounts) <= MaxLen
             /\ grp' = r.group
             /\ ret' = [opt |-> opt, acc |-> acc, err |-> r.err,
                        before |-> grp, found |-> <<>>]
    /\ UNCHANGED <<store, call, loopvar>>

\* g.lookup(accountName): the account the pointer returned leads to
GroupLookup ==
    /\ \E acc \in Names :
         LET l == lookup(grp, acc)
         IN  ret' = [opt |-> [NoOpt EXCEPT !.kind = "lookup"], acc |-> acc,
                     err |-> l.err, before |-> grp,
                     found |-> IF l.err = nil THEN <<grp.Accounts[l.idx]>>
                               ELSE <<>>]
    /\ UNCHANGED <<store, call, loopvar, grp>>

NextGroup == GroupApply \/ GroupLookup

SpecGroup == Init /\ [][NextGroup]_vars

(***************************************************************************)
(* Properties                                                              *)
(***************************************************************************)
\* the group a call's store held for its group id when the call started
PreGroup(c) == deserialize(c.pre[c.gid].data)

NoDuplicates(accounts) ==
    \A i, j \in 1..Len(accounts) :
        i # j => \/ accounts[i].Name # accounts[j].Name
                 \/ accounts[i].Tag # accounts[j].Tag

\* the UpdateState calls whose StateOption has been called
Mutating(c) == c.op = "UpdateState" /\ c.opt # NoOpt

\* C1: when the StateOption of an UpdateState call returns an error, the call
\* ends with that error, has written nothing, and the store is the store the
\* call started on.
C1_FailedMutationWritesNothing ==
    \A p \in Callers :
        LET c == call[p]
        IN  (Mutating(c) /\ ApplyOpt(c.opt, PreGroup(c), c.name).err # nil)
            => /\ c.phase = "Unloaded"
               /\ c.err = ApplyOpt(c.opt, PreGroup(c), c.name).err
               /\ c.writes = 0
               /\ store = c.pre

\* a rename onto a taken name has failed on a group of two accounts
C1_Witness ==
    \E p \in Callers :
        /\ Mutating(call[p])
        /\ call[p].opt.kind = "SetName"
        /\ call[p].err = ErrAccountExists
        /\ Len(PreGroup(call[p]).Accounts) = 2

\* C2: no group reached from the empty group by StateOptions holds two
\* accounts with the same name and the same tag.
C2_NoDuplicatePairs == NoDuplicates(grp.Accounts)

\* C3: append succeeds exactly when no account of the group has the name and
\* the tag of the new one; then the accounts are the old ones followed by the
\* new one; otherwise it returns ErrAccountExists and the group is unchanged.
C3_AppendIffNoCollision ==
    ret.opt.kind = "AddAccount" =>
        LET a == ret.opt.account[1]
            old == ret.before.Accounts
            collides == \E i \in 1..Len(old) :
                            old[i].Name = a.Name /\ old[i].Tag = a.Tag
        IN  /\ ret.err = nil <=> ~collides
            /\ ret.err = nil =>
                   grp = [ret.before EXCEPT !.Accounts = old \o <<a>>]
            /\ ret.err # nil => ret.err = ErrAccountExists /\ grp = ret.before

\* an append has collided on a group that also holds the name under another tag
C3_Witness ==
    /\ ret.opt.kind = "AddAccount"
    /\ ret.err = ErrAccountExists
    /\ \E i \in 1..Len(grp.Accounts) :
           /\ grp.Accounts[i].Name = ret.opt.account[1].Name
           /\ grp.Accounts[i].Tag # ret.opt.account[1].Tag

\* C4: once UpdateState has persisted, the group's blob decrypts under the
\* call's key to the StateOption applied to the group the store held when the
\* call started; and after AddAccount of an account named as the query says,
\* on a group without that name, GetAccount returns that account.
C4_PersistedIsMutationOfPrevious ==
    \A p \in Callers :
        LET c == call[p]
            r == ApplyOpt(c.opt, PreGroup(c), c.name)
            d == DecryptVault(store[c.gid], c.key)
        IN  (c.op = "UpdateState" /\ c.phase = "Persisted")
            => /\ c.err = nil
               /\ r.err = nil
               /\ d.err = nil
               /\ d.group = <<r.group>>
               /\ (/\ c.opt.kind = "AddAccount"
                   /\ c.opt.account[1].Name = c.name
                   /\ ~existsName(PreGroup(c), c.name))
                  => GetAccount(store, c.query, c.key)
                         = [err |-> nil, acc |-> c.opt.account]

\* an account has been added under the query's name to a group that held
\* another account
C4_Witness ==
    \E p \in Callers :
        /\ call[p].op = "UpdateState"
        /\ call[p].phase = "Persisted"
        /\ call[p].opt.kind = "AddAccount"
        /\ call[p].opt.account[1].Name = call[p].name
        /\ Len(PreGroup(call[p]).Accounts) = 1
        /\ ~existsName(PreGroup(call[p]), call[p].name)

\* the calls that name, by a well-formed query, a group whose blob is
\* encrypted under another key than the one they give
WrongKeyCall(c) ==
    /\ c.op \in {"GetAccount", "UpdateState", "CheckGroupKey"}
    /\ SplitQuery(c.query).err = nil
    /\ SplitQuery(c.query).gid \in DOMAIN c.pre
    /\ c.pre[SplitQuery(c.query).gid].key # c.key

\* C5: GetAccount, UpdateState and CheckGroupKey given another key than the
\* one the group's blob is encrypted under fail with ErrWrongKey; UpdateState
\* then has called no StateOption and written nothing.
C5_WrongKeyFails ==
    \A p \in Callers :
        LET c == call[p]
        IN  WrongKeyCall(c)
            => /\ c.err = ErrWrongKey
               /\ c.acc = <<>>
               /\ c.phase = "Unloaded"
               /\ c.opt = NoOpt
               /\ c.writes = 0
               /\ store = c.pre

\* UpdateState was given the wrong key for a group that holds an account
C5_Witness ==
    \E p \in Callers :
        /\ WrongKeyCall(call[p])
        /\ call[p].op = "UpdateState"
        /\ call[p].err = ErrWrongKey
        /\ Len(PreGroup(call[p]).Accounts) >= 1

\* C6: delete(name) on a group holding the name removes the first account of
\* that name and keeps the others in their order.
C6_DeleteRemovesFirstMatch ==
    (ret.opt.kind = "DeleteAccount" /\ existsName(ret.before, ret.acc))
    => /\ ret.err = nil
       /\ grp = [ret.before EXCEPT
                    !.Accounts = RemoveAt(@, lookup(ret.before, ret.acc).idx)]

\* C7: after UpdateState has persisted DeleteAccount on a group with exactly
\* one account of the query's name, GetAccount fails with ErrNoSuchAccount for
\* that name and returns every other account of the group as before.
C7_DeletedAccountIsGone ==
    \A p \in Callers :
        LET c == call[p]
            old == PreGroup(c).Accounts
        IN  (/\ c.op = "UpdateState"
             /\ c.phase = "Persisted"
             /\ c.opt.kind = "DeleteAccount"
             /\ Cardinality({i \in 1..Len(old) : old[i].Name = c.name}) = 1)
            => /\ GetAccount(store, c.query, c.key).err = ErrNoSuchAccount
               /\ \A i \in 1..Len(old) :
                      old[i].Name # c.name =>
                          GetAccount(store, Query(c.gid, old[i].Name), c.key)
                              = GetAccount(c.pre, Query(c.gid, old[i].Name),
                                           c.key)

\* C8: every store write of UpdateState puts, for the call's group alone, the
\* encryption under the call's key of the call's one StateOption applied,
\* with success, to the group decrypted from the blob the store held just
\* before the write.
C8_EveryWriteIsOneMutation ==
    [][\A p \in Callers :
          (/\ call'[p].op = "UpdateState"
           /\ (store' # store \/ call'[p].writes # call[p].writes))
          => LET c == call'[p]
                 d == DecryptVault(store[c.gid], c.key)
                 r == ApplyOpt(c.opt, d.group[1], c.name)
             IN  /\ c.gid \in DOMAIN store
                 /\ d.err = nil
                 /\ c.opt \in OptInputs
                 /\ r.err = nil
                 /\ store' = Put(store, c.gid,
                                 EncryptVault(serizalize(r.group), c.key))]_vars

\* UpdateState has persisted a DeleteAccount on a group of two accounts
C8_Witness ==
    \E p \in Callers :
        /\ call[p].op = "UpdateState"
        /\ call[p].phase = "Persisted"
        /\ call[p].writes = 1
        /\ call[p].opt.kind = "DeleteAccount"
        /\ Len(PreGroup(call[p]).Accounts) = 2

PhaseOrder ==
    {<<"Unloaded", "Loaded">>, <<"Loaded", "Mutated">>,
     <<"Mutated", "Persisted">>, <<"Loaded", "Unloaded">>,
     <<"Persisted", "Unloaded">>}

\* C9: a call of UpdateState changes phase only along Unloaded, Loaded,
\* Mutated, Persisted (or back to Unloaded); it writes the store only on the
\* step from Mutated to Persisted, once, after the query was split, the blob
\* read and decrypted and the StateOption returned nil; a call that failed is
\* in Unloaded and has written nothing.
C9_PhasesInOrder ==
    [][\A p \in Callers :
          LET b == call[p]
              c == call'[p]
          IN  /\ b.phase # c.phase => <<b.phase, c.phase>> \in PhaseOrder
              /\ (/\ c.op = "UpdateState"
                  /\ (store' # store \/ c.writes # b.writes))
                 => /\ b.phase = "Mutated" /\ c.phase = "Persisted"
                    /\ b.writes = 0 /\ c.writes = 1
                    /\ SplitQuery(c.query) =
                           [gid |-> c.gid, name |-> c.name, err |-> nil]
                    /\ c.gid \in DOMAIN c.pre
                    /\ DecryptVault(c.pre[c.gid], c.key).err = nil
                    /\ ApplyOpt(c.opt, c.loaded[1], c.name).err = nil
              /\ (c.op = "UpdateState" /\ c.err # nil)
                 => /\ c.phase = "Unloaded"
                    /\ c.writes = 0
                    /\ store' = c.pre]_vars

\* UpdateState has reached Persisted with its one write, for a new password
C9_Witness ==
    \E p \in Callers :
        /\ call[p].op = "UpdateState"
        /\ call[p].phase = "Persisted"
        /\ call[p].writes = 1
        /\ call[p].opt.kind = "SetPassword"

AtCount(q) == Cardinality({i \in 1..Len(q) : q[i] = querySplitPoint})

FirstAt(q) == CHOOSE i \in 1..Len(q) : q[i] = querySplitPoint

\* C10: SplitQuery succeeds exactly on the queries with one "@", giving the
\* text before it as group id and the text after it as account name; on any
\* other query it fails with ErrInvalidQuery, and GetAccount, CheckGroupKey and
\* UpdateState given such a query fail with it and leave the store alone.
C10_SplitQueryExactlyOneAt ==
    \A p \in Callers :
        LET c == call[p]
            q == c.query
        IN  c.op \in {"GetAccount", "UpdateState", "CheckGroupKey"}
            => /\ SplitQuery(q) =
                      IF AtCount(q) = 1
                      THEN [gid |-> SubSeq(q, 1, FirstAt(q) - 1),
                            name |-> SubSeq(q, FirstAt(q) + 1, Len(q)),
                            err |-> nil]
                      ELSE [gid |-> <<>>, name |-> <<>>,
                            err |-> ErrInvalidQuery]
               /\ c.err = ErrInvalidQuery <=> AtCount(q) # 1
               /\ AtCount(q) # 1
                  => /\ c.phase = "Unloaded"
                     /\ c.opt = NoOpt
                     /\ c.acc = <<>>
                     /\ c.writes = 0
                     /\ store = c.pre
               /\ (AtCount(q) = 1 /\ c.op = "UpdateState")
                  => /\ c.gid = SubSeq(q, 1, FirstAt(q) - 1)
                     /\ c.name = SubSeq(q, FirstAt(q) + 1, Len(q))

\* UpdateState was given a query with two "@" while group g held an account
C10_Witness ==
    \E p \in Callers :
        /\ call[p].op = "UpdateState"
        /\ AtCount(call[p].query) = 2
        /\ call[p].err = ErrInvalidQuery
        /\ GidG \in DOMAIN store
        /\ Len(store[GidG].data[2]) >= 1


\* C11: lookup(name) returns the first account of the sequence whose name is
\* name, whatever its tag, fails with ErrNoSuchAccount exactly when no account
\* has the name, and leaves the group as it was.
C11_LookupFirstByName ==
    ret.opt.kind = "lookup" =>
        LET old == ret.before.Accounts
            hits == {i \in 1..Len(old) : old[i].Name = ret.acc}
        IN  /\ grp = ret.before
            /\ ret.err = ErrNoSuchAccount <=> hits = {}
            /\ hits # {} =>
                   /\ ret.err = nil
                   /\ \E i \in hits :
                          /\ \A j \in hits : i <= j
                          /\ ret.found = <<old[i]>>
            /\ hits = {} => ret.found = <<>>

\* lookup has returned the first of two accounts of one name and two tags
C11_Witness ==
    /\ ret.opt.kind = "lookup"
    /\ ret.err = nil
    /\ Len(grp.Accounts) >= 2
    /\ grp.Accounts[1].Name = ret.acc
    /\ grp.Accounts[2].Name = ret.acc
    /\ grp.Accounts[1].Tag # grp.Accounts[2].Tag
    /\ ret.found = <<grp.Accounts[1]>>


\* C12: IsSetUp fails with ErrNotSetup when the default group has neither
\* metadata nor vault, and returns nil from a successful Setup on, until the
\* default group is deleted.
C12_IsSetUpAfterSetup ==
    [][/\ \A p \in Callers :
             LET c == call'[p]
             IN  /\ (c.op = "IsSetUp" /\ call[p].op # "IsSetUp")
                    => /\ DefaultGID \notin DOMAIN store => c.err = ErrNotSetup
                       /\ DefaultGID \in DOMAIN store => c.err = nil
                 /\ (c.op = "Setup" /\ call[p].op # "Setup" /\ c.err = nil)
                    => DefaultGID \in DOMAIN store'
       /\ (DefaultGID \in DOMAIN store /\ DefaultGID \notin DOMAIN store')
             => \E p \in Callers :
                    /\ call[p].op # "DeleteGroup"
                    /\ call'[p].op = "DeleteGroup"
                    /\ call'[p].gid = DefaultGID
                    /\ call'[p].err = nil]_vars

\* IsSetUp has returned nil on a default group that holds an account
C12_Witness ==
    \E p \in Callers :
        /\ call[p].op = "IsSetUp"
        /\ call[p].err = nil
        /\ DefaultGID \in DOMAIN store
        /\ Len(store[DefaultGID].data[2]) >= 1

\* C13: SetupGroup fails when the group exists and leaves the store as it
\* was; when it succeeds the group did not exist and its new blob decrypts
\* under the key to the group of that id with no accounts.
C13_SetupGroupFreshOrFails ==
    \A p \in Callers :
        LET c == call[p]
        IN  c.op = "SetupGroup"
            => /\ c.gid \in DOMAIN c.pre => (c.err # nil /\ store = c.pre)
               /\ c.err = nil
                  => /\ c.gid \notin DOMAIN c.pre
                     /\ c.gid \in DOMAIN store
                     /\ DecryptVault(store[c.gid], c.key)
                            = [err |-> nil,
                               group |-> <<[GID |-> c.gid, Accounts |-> <<>>]>>]
                     /\ \A x \in DOMAIN c.pre :
                            x \in DOMAIN store /\ store[x] = c.pre[x]

\* SetupGroup has failed, under another key, on a group that holds an account
C13_Witness ==
    \E p \in Callers :
        /\ call[p].op = "SetupGroup"
        /\ call[p].err # nil
        /\ call[p].gid \in DOMAIN store
        /\ store[call[p].gid].key # call[p].key
        /\ Len(store[call[p].gid].data[2]) >= 1


\* C14 as stated: CheckGroupKey returns nil or ErrWrongKey and nothing else,
\* nil exactly when the group's blob decrypts under the key.
C14_OnlySuccessOrWrongKey ==
    \A p \in Callers :
        LET c == call[p]
        IN  c.op = "CheckGroupKey"
            => /\ c.err \in {nil, ErrWrongKey}
               /\ c.err = nil
                  <=> /\ SplitQuery(c.query).err = nil
                      /\ SplitQuery(c.query).gid \in DOMAIN c.pre
                      /\ DecryptVault(c.pre[SplitQuery(c.query).gid],
                                      c.key).err = nil

\* C14 (amended): CheckGroupKey returns ErrInvalidQuery on a query without
\* exactly one "@", the read error on a group without a blob, and otherwise
\* nil exactly when the blob decrypts under the key and ErrWrongKey when it
\* does not; it returns no account and changes no blob.
C14_CheckGroupKeyOutcomes ==
    \A p \in Callers :
        LET c == call[p]
            q == SplitQuery(c.query)
        IN  c.op = "CheckGroupKey"
            => /\ store = c.pre
               /\ c.acc = <<>>
               /\ c.loaded = <<>>
               /\ AtCount(c.query) # 1 <=> c.err = ErrInvalidQuery
               /\ (AtCount(c.query) = 1 /\ q.gid \notin DOMAIN c.pre)
                  <=> c.err = ErrNoSuchGroup
               /\ (AtCount(c.query) = 1 /\ q.gid \in DOMAIN c.pre)
                  => /\ c.err \in {nil, ErrWrongKey}
                     /\ c.err = nil
                        <=> DecryptVault(c.pre[q.gid], c.key).err = nil

\* CheckGroupKey has answered ErrWrongKey on a group that holds an account
C14_Witness ==
    \E p \in Callers :
        LET c == call[p]
        IN  /\ c.op = "CheckGroupKey"
            /\ c.err = ErrWrongKey
            /\ SplitQuery(c.query).gid \in DOMAIN store
            /\ Len(store[SplitQuery(c.query).gid].data[2]) >= 1


\* the calls of GetAccount, and of UpdateState once its StateOption has been
\* called or its load has failed, on a query with exactly one "@"
Answered(c) ==
    /\ AtCount(c.query) = 1
    /\ \/ c.op = "GetAccount"
       \/ c.op = "UpdateState" /\ (c.opt # NoOpt \/ c.err # nil)

\* the group of the query has a blob, the key opens it, and no account in it
\* has the name of the query
NoAccountNamed(c) ==
    LET q == SplitQuery(c.query)
    IN  /\ q.gid \in DOMAIN c.pre
        /\ c.pre[q.gid].key = c.key
        /\ \A i \in 1..Len(deserialize(c.pre[q.gid].data).Accounts) :
               deserialize(c.pre[q.gid].data).Accounts[i].Name # q.name

\* C15 as stated: GetAccount and UpdateState fail with ErrNoSuchGroup on a
\* group without a blob and with ErrNoSuchAccount on a group without an
\* account of the given name, whatever the StateOption, and change no blob.
C15_MissingGroupOrAccountFails ==
    \A p \in Callers :
        LET c == call[p]
            q == SplitQuery(c.query)
        IN  Answered(c)
            => /\ q.gid \notin DOMAIN c.pre
                  => (c.err = ErrNoSuchGroup /\ store = c.pre)
               /\ NoAccountNamed(c)
                  => (c.err = ErrNoSuchAccount /\ store = c.pre)

\* the StateOptions that begin by looking up the account of the query
LooksUpFirst(c) ==
    \/ c.opt.kind \in {"SetPassword", "SetTag", "DeleteAccount"}
    \/ /\ c.opt.kind = "SetName"
       /\ \A i \in 1..Len(PreGroup(c).Accounts) :
              PreGroup(c).Accounts[i].Name # c.opt.name

\* C15 (amended): on a group without a blob GetAccount and UpdateState fail
\* with ErrNoSuchGroup; on a group without an account of the given name
\* GetAccount fails with ErrNoSuchAccount, and so does UpdateState with
\* SetPassword, SetTag, DeleteAccount, or SetName to a name no account has;
\* SetName to a name some account has fails with ErrAccountExists; none of
\* these changes the store.  AddAccount ignores the name of the query.
C15_MissingGroupOrAccountFailsUnlessAdd ==
    \A p \in Callers :
        LET c == call[p]
            q == SplitQuery(c.query)
        IN  Answered(c)
            => /\ q.gid \notin DOMAIN c.pre
                  => (c.err = ErrNoSuchGroup /\ store = c.pre)
               /\ (NoAccountNamed(c) /\ c.op = "GetAccount")
                  => (c.err = ErrNoSuchAccount /\ c.acc = <<>> /\ store = c.pre)
               /\ (NoAccountNamed(c) /\ c.op = "UpdateState" /\ LooksUpFirst(c))
                  => /\ c.err = ErrNoSuchAccount
                     /\ c.phase = "Unloaded"
                     /\ store = c.pre
               /\ (NoAccountNamed(c) /\ c.op = "UpdateState"
                      /\ c.opt.kind = "SetName" /\ ~LooksUpFirst(c))
                  => /\ c.err = ErrAccountExists
                     /\ c.phase = "Unloaded"
                     /\ store = c.pre

\* UpdateState has failed with ErrNoSuchAccount on a query with an empty
\* account half, on a group that holds an account
C15_Witness ==
    \E p \in Callers :
        LET c == call[p]
        IN  /\ c.op = "UpdateState"
            /\ Answered(c)
            /\ NoAccountNamed(c)
            /\ LooksUpFirst(c)
            /\ c.name = <<>>
            /\ Len(PreGroup(c).Accounts) >= 1
            /\ c.err = ErrNoSuchAccount


\* the index of the first account of accounts named name; 0 when there is none
FirstNamed(accounts, name) ==
    IF \E i \in 1..Len(accounts) : accounts[i].Name = name
    THEN CHOOSE i \in 1..Len(accounts) :
             /\ accounts[i].Name = name
             /\ \A j \in 1..(i - 1) : accounts[j].Name # name
    ELSE 0

C17_SetTagChecksNoUniqueness ==
    \A p \in Callers :
        LET c == call[p]
        IN  (Mutating(c) /\ c.opt.kind = "SetTag")
            => LET t == FirstNamed(PreGroup(c).Accounts, c.name)
               IN  /\ t # 0 <=> (c.err = nil /\ c.phase \in {"Mutated", "Persisted"})
                   /\ t = 0 => (c.err = ErrNoSuchAccount /\ c.phase = "Unloaded")
                   /\ c.phase = "Persisted"
                      => deserialize(store[c.gid].data)
                            = [PreGroup(c) EXCEPT !.Accounts[t].Tag = c.opt.text]

\* a SetTag has been persisted that made two accounts of a group without
\* duplicates share their name and tag
C17_Witness ==
    \E p \in Callers :
        LET c == call[p]
        IN  /\ Mutating(c)
            /\ c.opt.kind = "SetTag"
            /\ c.phase = "Persisted"
            /\ NoDuplicates(PreGroup(c).Accounts)
            /\ ~NoDuplicates(deserialize(store[c.gid].data).Accounts)


\* C18: when two UpdateState calls on one group have both loaded the same
\* blob and one has persisted, the other's write succeeds too and leaves in
\* the store its own mutation of the blob both loaded: the group of the
\* earlier writer is overwritten.
C18_LastWriterWins ==
    [][\A p, q \in Callers :
          (/\ p # q
           /\ call[p].phase = "Mutated"
           /\ call'[p].phase = "Persisted"
           /\ call[q].phase = "Persisted"
           /\ call[q].gid = call[p].gid
           /\ call[q].pre = call[p].pre)
          => /\ call'[p].err = nil
             /\ call'[q].err = nil
             /\ store'[call[p].gid].key = call[p].key
             /\ deserialize(store'[call[p].gid].data)
                   = ApplyOpt(call[p].opt, PreGroup(call[p]), call[p].name).group]_vars

\* both callers loaded the same blob, both have persisted without an error,
\* and the account one of them added is not in the stored group
C18_Witness ==
    \E p, q \in Callers :
        /\ p # q
        /\ call[p].phase = "Persisted" /\ call[q].phase = "Persisted"
        /\ call[p].err = nil /\ call[q].err = nil
        /\ call[p].gid = call[q].gid
        /\ call[p].pre = call[q].pre
        /\ call[q].opt.kind = "AddAccount"
        /\ \A i \in 1..Len(PreGroup(call[q]).Accounts) :
               PreGroup(call[q]).Accounts[i] # call[q].opt.account[1]
        /\ LET now == deserialize(store[call[p].gid].data).Accounts
           IN  /\ \A i \in 1..Len(now) : now[i] # call[q].opt.account[1]
               /\ now = call[p].group[1].Accounts


\* C19: a successful SetPassword, SetName or SetTag changes one field, the
\* secret, the name or the tag, of the first account of the target name:
\* the group id, the number and order of the accounts, every other account,
\* and every other field of that account, CreatedOn among them, stay.
C19_UpdateChangesOneField ==
    (ret.opt.kind \in {"SetPassword", "SetName", "SetTag"} /\ ret.err = nil)
    => LET old == ret.before.Accounts
           new == grp.Accounts
           t == FirstNamed(old, ret.acc)
       IN  /\ t # 0
           /\ grp.GID = ret.before.GID
           /\ Len(new) = Len(old)
           /\ \A i \in 1..Len(old) : i # t => new[i] = old[i]
           /\ \A i \in 1..Len(old) : new[i].CreatedOn = old[i].CreatedOn
           /\ ret.opt.kind = "SetPassword"
              => /\ new[t].Secret = ret.opt.text
                 /\ new[t].Name = old[t].Name /\ new[t].Tag = old[t].Tag
           /\ ret.opt.kind = "SetName"
              => /\ new[t].Name = ret.opt.name
                 /\ new[t].Secret = old[t].Secret /\ new[t].Tag = old[t].Tag
           /\ ret.opt.kind = "SetTag"
              => /\ new[t].Tag = ret.opt.text
                 /\ new[t].Name = old[t].Name /\ new[t].Secret = old[t].Secret

\* SetName has renamed the first of two accounts of the target name and left
\* the second as it was
C19_Witness ==
    /\ ret.opt.kind = "SetName"
    /\ ret.err = nil
    /\ Len(ret.before.Accounts) >= 2
    /\ ret.before.Accounts[1].Name = ret.acc
    /\ ret.before.Accounts[2].Name = ret.acc
    /\ grp.Accounts[1].Name = ret.opt.name
    /\ grp.Accounts[1].Name # ret.acc
    /\ grp.Accounts[2] = ret.before.Accounts[2]


\* C20: between calls a caller holds no decrypted group or account, every
\* call starts at Unloaded, and what GetAccount, CheckGroupKey and the load
\* and the StateOption of UpdateState give is fixed by their arguments and
\* the store at that step: the answer of GetAccount is the first account of
\* that name in the blob now stored, the group UpdateState loads is the
\* group of the blob now stored.
C20_NoGroupSurvivesACall ==
    [][\A p \in Callers :
          LET b == call[p]
              c == call'[p]
              q == SplitQuery(c.query)
          IN  /\ c.op = "none"
                 => (c.loaded = <<>> /\ c.group = <<>> /\ c.acc = <<>>
                        /\ c.phase = "Unloaded")
              /\ (b.op = "none" /\ c.op # "none")
                 => (b.loaded = <<>> /\ b.group = <<>> /\ b.acc = <<>>
                        /\ b.phase = "Unloaded")
              /\ (b.op = "none" /\ c.op = "GetAccount")
                 => /\ [err |-> c.err, acc |-> c.acc]
                          = GetAccount(store, c.query, c.key)
                    /\ c.err = nil
                       => /\ store[q.gid].key = c.key
                          /\ LET now == deserialize(store[q.gid].data).Accounts
                             IN  c.acc = <<now[FirstNamed(now, q.name)]>>
                    /\ c.err # nil => c.acc = <<>>
                    /\ c.loaded = <<>> /\ c.group = <<>>
              /\ (b.op = "none" /\ c.op = "CheckGroupKey")
                 => /\ c.err = CheckGroupKey(store, c.query, c.key)
                    /\ c.loaded = <<>> /\ c.group = <<>> /\ c.acc = <<>>
              /\ (b.op = "none" /\ c.op = "UpdateState")
                 => /\ c.phase = "Loaded"
                       => /\ store[c.gid].key = c.key
                          /\ c.loaded = <<deserialize(store[c.gid].data)>>
                          /\ c.group = c.loaded
                    /\ c.phase # "Loaded"
                       => (c.err # nil /\ c.loaded = <<>> /\ c.group = <<>>)
              /\ (b.op = "UpdateState" /\ b.phase = "Loaded" /\ c.phase # "Loaded")
                 => LET r == ApplyOpt(c.opt, b.loaded[1], b.name)
                    IN  /\ c.err = r.err
                        /\ r.err = nil => c.group = <<r.group>>
                        /\ r.err # nil => (c.group = <<>> /\ c.loaded = <<>>)]_vars

\* GetAccount given another key fails on a group whose blob holds the account
\* asked for, which an earlier call decrypted and wrote
C20_Witness ==
    \E p \in Callers :
        LET c == call[p]
            q == SplitQuery(c.query)
        IN  /\ c.op = "GetAccount"
            /\ c.err = ErrWrongKey
            /\ c.acc = <<>>
            /\ q.gid \in DOMAIN store
            /\ FirstNamed(deserialize(store[q.gid].data).Accounts, q.name) # 0


\* the groups other than gid are the same, with the same blobs, in st and pre
OthersUnchanged(st, pre, gid) ==
    /\ DOMAIN st \ {gid} = DOMAIN pre \ {gid}
    /\ \A x \in DOMAIN pre \ {gid} : st[x] = pre[x]

\* C21: UpdateState on a query with group id g loads the blob of g and
\* writes the blob of g only: every other group keeps its blob whether the
\* call succeeds or fails, and a failed call changes no blob at all;
\* GetAccount and ReadRegisteredGroups change no blob.
C21_GroupsAreIsolated ==
    \A p \in Callers :
        LET c == call[p]
        IN  /\ c.op = "UpdateState"
               => /\ OthersUnchanged(store, c.pre, c.gid)
                  /\ c.loaded # <<>>
                     => (c.loaded[1] = PreGroup(c) /\ c.loaded[1].GID = c.gid)
                  /\ c.phase # "Persisted" => store = c.pre
                  /\ c.phase = "Persisted"
                     => deserialize(store[c.gid].data).GID = c.gid
            /\ c.op \in {"GetAccount", "ReadRegisteredGroups"} => store = c.pre

\* UpdateState has changed the blob of one group while another group, which
\* holds an account, has the blob it had
C21_Witness ==
    \E p \in Callers :
        LET c == call[p]
        IN  /\ c.op = "UpdateState"
            /\ c.phase = "Persisted"
            /\ store[c.gid] # c.pre[c.gid]
            /\ \E x \in DOMAIN c.pre :
                   /\ x # c.gid
                   /\ Len(deserialize(c.pre[x].data).Accounts) >= 1
                   /\ store[x] = c.pre[x]

====
